---- MODULE Spec2Model ----
(***************************************************************************)
(* The I-94 traffic analysis script (src/traffic_analysis_project.py) as a  *)
(* state machine.  The script is a sequence of notebook cells run top to    *)
(* bottom; pc is the cell that runs next, the other variables are the       *)
(* script's global tables.  A DataFrame or Series is a sequence of rows in  *)
(* table order, every row carrying its index label (idx).  Real numbers are *)
(* exact rationals <<num, den>> with den > 0; the missing value NaN is      *)
(* <<0, 0>>.  A calendar date is its day ordinal in the year 2013.  The     *)
(* traffic_volume column holds integers, NoVolume where the field is empty. *)
(* The cells that build the tables of the analysis are modelled; the cells  *)
(* that only plot or display, and the annotations they compute, are not.    *)
(* An exception a cell raises ends the run (pc = "error").                  *)
(***************************************************************************)
EXTENDS Integers, Sequences, FiniteSets, TLC

(* ------------------------------ bounds --------------------------------- *)
\* rows of a dataset that varies the hour of day
MaxRowsSplit == 2
\* rows of a dataset that varies month and traffic volume
MaxRowsIqr == 5
\* rows of a dataset that varies date and weather description
MaxRowsDaily == 3
\* observation days of "scattered clouds" in the datasets made for the t-test
MaxPairs == 3
\* weeks of a dataset that varies the day of the week
MaxWeeks == 5
\* rows added to the dataset that passes the t-test
MaxRowsLate == 2

MaxRowsMissing == 3

(* --------------------------- exact arithmetic -------------------------- *)
RECURSIVE Gcd(_, _)
Gcd(a, b) == IF b = 0 THEN a ELSE Gcd(b, a % b)

Abs(x) == IF x < 0 THEN -x ELSE x

NaN == <<0, 0>>

IsNaN(x) == x[2] = 0

\* the rational n/d in lowest terms with a positive denominator; n/0 is NaN
Rat(n, d) ==
    IF d = 0 THEN NaN
    ELSE LET g == Gcd(Abs(n), Abs(d))
             s == IF d < 0 THEN -1 ELSE 1
         IN  <<(s * n) \div g, (s * d) \div g>>

ToRat(v) == <<v, 1>>

RAdd(x, y) == IF IsNaN(x) \/ IsNaN(y) THEN NaN
              ELSE Rat(x[1] * y[2] + y[1] * x[2], x[2] * y[2])

RSub(x, y) == IF IsNaN(x) \/ IsNaN(y) THEN NaN
              ELSE Rat(x[1] * y[2] - y[1] * x[2], x[2] * y[2])

RMul(x, y) == IF IsNaN(x) \/ IsNaN(y) THEN NaN
              ELSE Rat(x[1] * y[1], x[2] * y[2])

\* x / y in floating point: 0/0 is NaN (a non-zero value over 0 is never formed)
RDiv(x, y) == IF IsNaN(x) \/ IsNaN(y) THEN NaN
              ELSE Rat(x[1] * y[2], x[2] * y[1])

\* comparisons with NaN are false
RLe(x, y) == ~IsNaN(x) /\ ~IsNaN(y) /\ x[1] * y[2] <= y[1] * x[2]

RLt(x, y) == ~IsNaN(x) /\ ~IsNaN(y) /\ x[1] * y[2] < y[1] * x[2]

Sign(n) == IF n > 0 THEN 1 ELSE IF n < 0 THEN -1 ELSE 0

(* ------------------------------ sequences ------------------------------ *)
Range(s) == {s[i] : i \in 1..Len(s)}

RECURSIVE SumSeq(_)
SumSeq(s) == IF s = <<>> THEN ToRat(0) ELSE RAdd(s[1], SumSeq(Tail(s)))

\* mean of a non-empty sequence of rationals
Mean(s) == RDiv(SumSeq(s), ToRat(Len(s)))

\* the mean of the non-missing values of a sequence, NaN when there is none
MeanSkipNa(s) ==
    LET have == SelectSeq(s, LAMBDA v : ~IsNaN(v))
    IN  IF have = <<>> THEN NaN ELSE Mean(have)

\* the traffic_volume of a row whose field is empty in the CSV, which read_csv
\* parses as NaN; a volume is a count and never negative
NoVolume == -1

\* the traffic volume of a row as a number, NaN when it is missing
VolumeOf(r) == IF r.traffic_volume = NoVolume THEN NaN ELSE ToRat(r.traffic_volume)

\* the elements of a finite set of integers in ascending order
SortedSeq(S) ==
    [p \in 1..Cardinality(S) |->
        CHOOSE x \in S : Cardinality({y \in S : y < x}) = p - 1]

\* the ascending sequence s with x inserted after the elements not above x
RECURSIVE InsertValue(_, _)
InsertValue(s, x) ==
    IF s = <<>> THEN <<x>>
    ELSE IF RLt(x, s[1]) THEN <<x>> \o s
    ELSE <<s[1]>> \o InsertValue(Tail(s), x)

\* a sequence of rationals in ascending order
RECURSIVE SortedValues(_)
SortedValues(s) ==
    IF s = <<>> THEN <<>>
    ELSE InsertValue(SortedValues(SubSeq(s, 1, Len(s) - 1)), s[Len(s)])

(* ------------------------------- calendar ------------------------------ *)
Year == 2013

\* days of the year before the first day of month m (2013 is no leap year)
DaysBefore(m) ==
    CASE m = 1 -> 0     [] m = 2 -> 31   [] m = 3 -> 59   [] m = 4 -> 90
      [] m = 5 -> 120   [] m = 6 -> 151  [] m = 7 -> 181  [] m = 8 -> 212
      [] m = 9 -> 243   [] m = 10 -> 273 [] m = 11 -> 304 [] m = 12 -> 334
      [] m = 13 -> 365

\* .dt.month of a date
MonthOf(d) == CHOOSE m \in 1..12 : DaysBefore(m) < d /\ d <= DaysBefore(m + 1)

\* .dt.day of a date
DayOf(d) == d - DaysBefore(MonthOf(d))

DayOfWeekSundayFirst(d) == (d + 1) % 7

\* .dt.dayofweek of a date, 0 = Monday: 1 January 2013 is a Tuesday
DayOfWeek(d) == d % 7

(* ------------------------------ statistics ---------------------------- *)
\* Series.quantile(q), linear interpolation between the order statistics at
\* position q*(n-1); s is a sequence of rationals without NaN
Quantile(s, q) ==
    IF s = <<>> THEN NaN
    ELSE LET sorted == SortedValues(s)
             pos == RMul(q, ToRat(Len(s) - 1))
             lo == pos[1] \div pos[2]
             frac == RSub(pos, ToRat(lo))
         IN  IF frac[1] = 0 THEN sorted[lo + 1]
             ELSE RAdd(sorted[lo + 1],
                       RMul(frac, RSub(sorted[lo + 2], sorted[lo + 1])))

\* the traffic volumes of the rows of df whose month is m, in table order
MonthVolumes(df, m) ==
    LET rows == SelectSeq(df, LAMBDA r : r.month = m)
    IN  [i \in 1..Len(rows) |-> VolumeOf(rows[i])]

\* df.groupby("month")["traffic_volume"].mean().sort_index()
MeanByMonth(df) ==
    LET months == SortedSeq({df[i].month : i \in 1..Len(df)})
    IN  [p \in 1..Len(months) |->
            [idx |-> months[p], val |-> MeanSkipNa(MonthVolumes(df, months[p]))]]

\* the rows of df ordered by date_time; rows of one timestamp keep their order
RECURSIVE InsertRow(_, _)
InsertRow(df, r) ==
    IF df = <<>> THEN <<r>>
    ELSE IF \/ r.date_time[1] < df[1].date_time[1]
            \/ /\ r.date_time[1] = df[1].date_time[1]
               /\ r.date_time[2] < df[1].date_time[2]
         THEN <<r>> \o df
    ELSE <<df[1]>> \o InsertRow(Tail(df), r)

\* df.sort_values("date_time")
RECURSIVE SortValuesDateTime(_)
SortValuesDateTime(df) ==
    IF df = <<>> THEN <<>>
    ELSE InsertRow(SortValuesDateTime(SubSeq(df, 1, Len(df) - 1)), df[Len(df)])

\* df[df["weather_description"] == w].groupby("date_only")["traffic_volume"]
\* .mean(), its index sorted: one entry per date on which w was observed
DailyMean(df, w) ==
    LET rows == SelectSeq(df, LAMBDA r : r.weather_description = w)
        dates == SortedSeq({rows[i].date_only : i \in 1..Len(rows)})
        vols(d) == LET on == SelectSeq(rows, LAMBDA r : r.date_only = d)
                   IN  [i \in 1..Len(on) |-> VolumeOf(on[i])]
    IN  [p \in 1..Len(dates) |->
            [idx |-> dates[p], val |-> MeanSkipNa(vols(dates[p]))]]

\* index.min() and index.max() of a series with a sorted index; NaT when empty
NaT == 0

IndexMin(s) == IF s = <<>> THEN NaT ELSE s[1].idx

IndexMax(s) == IF s = <<>> THEN NaT ELSE s[Len(s)].idx

\* Python's min(a, b) and max(a, b): a unless b compares below (above) it, and
\* every comparison with NaT is false
PyMin(a, b) == IF a # NaT /\ b # NaT /\ b < a THEN b ELSE a

PyMax(a, b) == IF a # NaT /\ b # NaT /\ b > a THEN b ELSE a

\* pd.date_range(start, end, freq="D")
date_range(start, end) == [i \in 1..(end - start + 1) |-> start + i - 1]

reindex_nothing(s, days) == s

\* s.reindex(days): the value of s on a date of its index, NaN on any other
reindex(s, days) ==
    [i \in 1..Len(days) |->
        [idx |-> days[i],
         val |-> IF \E j \in 1..Len(s) : s[j].idx = days[i]
                 THEN s[CHOOSE j \in 1..Len(s) : s[j].idx = days[i]].val
                 ELSE NaN]]

dropna_nothing(s) == s

\* s.dropna()
dropna(s) == SelectSeq(s, LAMBDA e : ~IsNaN(e.val))

\* s.index.to_series().diff().dropna(): the steps between consecutive dates
IndexDiffs(s) == [i \in 1..(Len(s) - 1) |-> s[i + 1].idx - s[i].idx]

\* round(x, 3) of a ratio in 0..1, in thousandths (ties to the even digit)
Round3(x) ==
    LET n == 1000 * x[1]
        fl == n \div x[2]
        twice == 2 * (n % x[2])
    IN  IF twice < x[2] THEN fl
        ELSE IF twice > x[2] THEN fl + 1
        ELSE IF fl % 2 = 0 THEN fl ELSE fl + 1

\* what check_daily_series(name, s) prints
check_daily_series(name, s) ==
    LET diffs_full == IndexDiffs(s)
        s_nonan == dropna(s)
        diffs_nonan == IndexDiffs(s_nonan)
        gaps == Range(diffs_nonan)
        count(g) == Cardinality({i \in 1..Len(diffs_nonan) : diffs_nonan[i] = g})
        ratio_1day == Rat(count(1), Len(diffs_nonan))
    IN  [cell |-> "check_daily_series",
         name |-> name,
         is_daily_full |-> \A i \in 1..Len(diffs_full) : diffs_full[i] = 1,
         non_nan |-> Len(s_nonan),
         total |-> Len(s),
         top_diffs |-> {<<g, count(g)>> : g \in
                           {h \in gaps :
                              Cardinality({h2 \in gaps : count(h2) > count(h)}) < 5}},
         not_enough |-> ~(Len(diffs_nonan) > 0),
         ratio_1day |-> IF Len(diffs_nonan) > 0 THEN ratio_1day ELSE NaN,
         printed_ratio |-> IF Len(diffs_nonan) > 0 THEN Round3(ratio_1day) ELSE 0]

(* --------------------------- weekly averages --------------------------- *)
\* the label of the W-MON bin of a date: the Monday that ends its week
WeekLabel(d) == d + ((7 - DayOfWeek(d)) % 7)

\* groupby([Grouper(freq="W-MON"), dayofweek])["traffic_volume"].mean()
\* .unstack().sort_index(): one row per observed week, one column per observed
\* day of the week, NaN where a week has no row of that day
WeekByWeekday(df) ==
    LET weeks == SortedSeq({WeekLabel(df[i].date_time[1]) : i \in 1..Len(df)})
        days == {DayOfWeek(df[i].date_time[1]) : i \in 1..Len(df)}
        vols(w, c) ==
            LET on == SelectSeq(df, LAMBDA r : /\ WeekLabel(r.date_time[1]) = w
                                               /\ DayOfWeek(r.date_time[1]) = c)
            IN  [i \in 1..Len(on) |-> VolumeOf(on[i])]
    IN  [p \in 1..Len(weeks) |->
            [idx |-> weeks[p],
             row |-> [c \in days |-> MeanSkipNa(vols(weeks[p], c))]]]

\* the window of the rolling mean that counts only the current row
RollingWindowOfOne(i, window) == i..i

\* the rows of the trailing window that ends at row i
RollingWindow(i, window) == (IF i - window + 1 < 1 THEN 1 ELSE i - window + 1)..i

\* frame.rolling(window, min_periods).mean(), column by column: the mean of
\* the non-missing values of the window when there are min_periods of them
Rolling(frame, window, min_periods) ==
    [i \in 1..Len(frame) |->
        [idx |-> frame[i].idx,
         row |-> [c \in DOMAIN frame[i].row |->
                    LET rows == SortedSeq(RollingWindow(i, window))
                        vals == [j \in 1..Len(rows) |-> frame[rows[j]].row[c]]
                        have == SelectSeq(vals, LAMBDA v : ~IsNaN(v))
                    IN  IF Len(have) >= min_periods THEN Mean(have) ELSE NaN]]]

(* ------------------------ weather, residuals, counts ------------------ *)
\* df.groupby("weather_description")["traffic_volume"].mean(): one group per
\* distinct string of the column, as the set of its (label, mean) entries; the
\* order sort_values() gives them is not modelled
MeanByWeather(df) ==
    {[idx |-> w,
      val |-> LET rows == SelectSeq(df, LAMBDA r : r.weather_description = w)
              IN  MeanSkipNa([i \in 1..Len(rows) |-> VolumeOf(rows[i])])]
        : w \in {df[i].weather_description : i \in 1..Len(df)}}

\* the mean over all rows of df, whatever their weekday and hour
MeanOfAllRows(df, r) == MeanSkipNa([i \in 1..Len(df) |-> VolumeOf(df[i])])

\* groupby(["weekday", "hour"])["traffic_volume"].transform("mean") at row r
MeanOfGroup(df, r) ==
    LET rows == SelectSeq(df, LAMBDA o : o.weekday = r.weekday /\ o.hour = r.hour)
    IN  MeanSkipNa([i \in 1..Len(rows) |-> VolumeOf(rows[i])])

\* the residuals taken from the mean of the rows of the same hour, whatever
\* their weekday
ResidualizeByHour(tmp) ==
    LET sorted == SortValuesDateTime(tmp)
        mu(r) == LET rows == SelectSeq(sorted, LAMBDA o : o.date_time[2] = r.date_time[2])
                 IN  MeanSkipNa([i \in 1..Len(rows) |-> VolumeOf(rows[i])])
    IN  [i \in 1..Len(sorted) |->
            [idx |-> sorted[i].idx,
             date_time |-> sorted[i].date_time,
             traffic_volume |-> sorted[i].traffic_volume,
             weather_description |-> sorted[i].weather_description,
             hour |-> sorted[i].date_time[2],
             weekday |-> DayOfWeek(sorted[i].date_time[1]),
             resid |-> RSub(VolumeOf(sorted[i]), mu(sorted[i]))]]

\* tmp.sort_values("date_time") with the columns hour, weekday and resid
Residualize(tmp) ==
    LET sorted == SortValuesDateTime(tmp)
        keyed == [i \in 1..Len(sorted) |->
                    [idx |-> sorted[i].idx,
                     date_time |-> sorted[i].date_time,
                     traffic_volume |-> sorted[i].traffic_volume,
                     weather_description |-> sorted[i].weather_description,
                     hour |-> sorted[i].date_time[2],
                     weekday |-> DayOfWeek(sorted[i].date_time[1])]]
    IN  [i \in 1..Len(keyed) |->
            [idx |-> keyed[i].idx,
             date_time |-> keyed[i].date_time,
             traffic_volume |-> keyed[i].traffic_volume,
             weather_description |-> keyed[i].weather_description,
             hour |-> keyed[i].hour,
             weekday |-> keyed[i].weekday,
             resid |-> RSub(VolumeOf(keyed[i]),
                            MeanOfGroup(keyed, keyed[i]))]]

\* the boolean Series df["weather_description"] == w, by index label
WeatherMask(df, w) == {df[i].idx : i \in {j \in 1..Len(df) : df[j].weather_description = w}}

\* a mask taken by row position in the table it was computed on
LocByPosition(df, of, mask) ==
    LET kept == SelectSeq([i \in 1..Len(df) |-> i], LAMBDA i : of[i].idx \in mask)
    IN  [p \in 1..Len(kept) |-> [idx |-> df[kept[p]].idx, val |-> df[kept[p]].resid]]

\* df.loc[mask, "resid"] with the mask a boolean Series computed on table of:
\* pandas aligns the mask to df by index label, so the rows of df whose label
\* is in the mask are taken, in the order of df
LocResid(df, of, mask) ==
    LET rows == SelectSeq(df, LAMBDA r : r.idx \in mask)
    IN  [p \in 1..Len(rows) |-> [idx |-> rows[p].idx, val |-> rows[p].resid]]

\* the count of the rows of df of date d and weather description w
CountOf(df, d, w) ==
    Cardinality({i \in 1..Len(df) : df[i].date_only = d /\ df[i].weather_description = w})

\* reindex(all_days) without a fill value
FillNaN(w) == NaN

\* reindex(all_days, fill_value=0)
FillZero(w) == ToRat(0)

\* i_94.groupby(["date_only", "weather_description"]).size().unstack()
\* .fillna(0), sorted by date and reindexed onto days with fill_value=0: one
\* row per day, one column per distinct weather description string
DailyCounts(df, days) ==
    LET weathers == {df[i].weather_description : i \in 1..Len(df)}
        dates == {df[i].date_only : i \in 1..Len(df)}
    IN  [p \in 1..Len(days) |->
            [idx |-> days[p],
             row |-> [w \in weathers |->
                        IF days[p] \in dates THEN ToRat(CountOf(df, days[p], w))
                        ELSE FillZero(w)]]]

\* the grid of the heatmap
HeatMonths == 4..10

HeatHours == 6..18

\* groupby(["month", "hour"]).size().unstack("hour").reindex(...).fillna(0)
CellCount(df, m, h) == Cardinality({i \in 1..Len(df) : df[i].month = m /\ df[i].hour = h})

\* a relative frequency that is 0 where the cell has no row at all
RelativeFrequencyZeroFilled(count, base) ==
    IF base = 0 THEN ToRat(0) ELSE Rat(count, base)

\* counts / base.replace(0, np.nan) in one cell
RelativeFrequency(count, base) ==
    IF base = 0 THEN NaN ELSE Rat(count, base)

\* the table of the odds: the count of the weather over the count of the
\* rows of the other weathers
HeatmapDataOdds(warm, weather) ==
    LET df == SelectSeq(warm, LAMBDA r : r.weather_description = weather)
    IN  [c \in HeatMonths \X HeatHours |->
            Rat(CellCount(df, c[1], c[2]),
                CellCount(warm, c[1], c[2]) - CellCount(df, c[1], c[2]))]

\* the table data of plot_weather_heatmap(weather, normalize=True)
HeatmapData(warm, weather) ==
    LET df == SelectSeq(warm, LAMBDA r : r.weather_description = weather)
    IN  [c \in HeatMonths \X HeatHours |->
            RelativeFrequency(CellCount(df, c[1], c[2]), CellCount(warm, c[1], c[2]))]

(* ---------------------------- Welch's t-test -------------------------- *)
\* R's t.test(x, y) with its defaults (two-sided, mu = 0, var.equal = FALSE,
\* conf.level = 0.95), which is what ro.r["t.test"](r_scattered, r_mist)
\* runs.  A square root is never taken: the model keeps stderr^2, and the
\* statistic as its sign and its square.

\* x[!is.na(x)]
NotNa(x) == SelectSeq(x, LAMBDA v : ~IsNaN(v))

\* the sum of the squared deviations of the elements of x from m
RECURSIVE SumSqDev(_, _)
SumSqDev(x, m) ==
    IF x = <<>> THEN ToRat(0)
    ELSE RAdd(RMul(RSub(x[1], m), RSub(x[1], m)), SumSqDev(Tail(x), m))

VarPopulation(x) == RDiv(SumSqDev(x, Mean(x)), ToRat(Len(x)))

\* var(x): the sample variance, denominator n - 1
Var(x) == RDiv(SumSqDev(x, Mean(x)), ToRat(Len(x) - 1))

\* stderrx^2 = vx / nx
StdErrSq(x) == RDiv(Var(x), ToRat(Len(x)))

DfPooled(x, y) == ToRat(Len(x) + Len(y) - 2)

\* df <- stderr^4 / (stderrx^4/(nx-1) + stderry^4/(ny-1))
WelchDf(x, y) ==
    LET sx == StdErrSq(x)
        sy == StdErrSq(y)
        se2 == RAdd(sx, sy)
    IN  RDiv(RMul(se2, se2),
             RAdd(RDiv(RMul(sx, sx), ToRat(Len(x) - 1)),
                  RDiv(RMul(sy, sy), ToRat(Len(y) - 1))))

\* tstat <- (mx - my - mu) / stderr, as the sign and the square of the value;
\* 0/0 is NaN
TStat(x, y) ==
    LET diff == RSub(Mean(x), Mean(y))
        se2 == RAdd(StdErrSq(x), StdErrSq(y))
    IN  IF se2[1] = 0 THEN [sgn |-> 0, sq |-> NaN]
        ELSE [sgn |-> Sign(diff[1]), sq |-> RDiv(RMul(diff, diff), se2)]

PValueLowerTail(t, df) ==
    [fn |-> "pt(t, df)", sgn |-> t.sgn, sq |-> t.sq, df |-> df]

\* pval <- 2 * pt(-abs(tstat), df): a function of |tstat| and df alone
PValue(t, df) ==
    [fn |-> "2 * pt(-abs(t), df)", sq |-> t.sq, df |-> df]

EssentiallyConstantNever(x, y) == FALSE

\* stderr < 10 * .Machine$double.eps * max(abs(mx), abs(my)); the tolerance is
\* below every non-zero stderr the exact values of the model can form
EssentiallyConstant(x, y) ==
    LET se2 == RAdd(StdErrSq(x), StdErrSq(y))
        mx == Mean(x)
        my == Mean(y)
    IN  se2[1] = 0 /\ (mx[1] # 0 \/ my[1] # 0)

TTestErrorAnySize(xs, ys) ==
    LET x == NotNa(xs)
        y == NotNa(ys)
    IN  IF Len(x) >= 2 /\ Len(y) >= 2 /\ EssentiallyConstant(x, y)
        THEN "data are essentially constant"
        ELSE "none"

\* the condition R stops on, "none" when it returns a result
TTestError(xs, ys) ==
    LET x == NotNa(xs)
        y == NotNa(ys)
    IN  IF Len(x) < 2 THEN "not enough 'x' observations"
        ELSE IF Len(y) < 2 THEN "not enough 'y' observations"
        ELSE IF EssentiallyConstant(x, y) THEN "data are essentially constant"
        ELSE "none"

\* the htest object R returns
TTest(xs, ys) ==
    LET x == NotNa(xs)
        y == NotNa(ys)
        t == TStat(x, y)
        df == WelchDf(x, y)
    IN  [ran |-> TRUE,
         statistic |-> t,
         parameter |-> df,
         p_value |-> PValue(t, df),
         conf_int |-> [fn |-> "diff -/+ qt(0.975, df) * stderr",
                       diff |-> RSub(Mean(x), Mean(y)),
                       stderr_sq |-> RAdd(StdErrSq(x), StdErrSq(y)),
                       df |-> df],
         estimate |-> <<Mean(x), Mean(y)>>]

(* ------------------------------- state --------------------------------- *)
VARIABLES
    pc,                  \* the cell that runs next, "done" or "error"
    i_94,                \* the base table
    day_time,            \* rows with 6 <= hour <= 18
    night_time,          \* rows with hour > 18 or hour < 6
    day_time_no_out,     \* day_time without the per-month IQR outliers
    by_month,            \* monthly mean of day_time
    by_month_iqr,        \* monthly mean of day_time_no_out
    month_condition,     \* idx labels of the day_time rows of months 4..10
    warm_season_daytime, \* day_time[month_condition]
    sc_daily,            \* daily mean series of "scattered clouds"
    mst_daily,           \* daily mean series of "mist"
    all_days,            \* the date axis both daily series are reindexed onto
    r_scattered,         \* the R vector made of sc_daily
    r_mist,              \* the R vector made of mst_daily
    t_test,              \* the result of R's t.test
    out,                 \* what the script has printed or displayed
    by_week_weekday,     \* weekly mean of day_time per day of the week
    by_week_weekday_MA,  \* its 4-week moving average
    by_weather_description, \* mean of day_time per weather description
    tmp_sorted,          \* warm_season_daytime in time order with residuals
    sc_resid,            \* the residuals of "scattered clouds"
    mst_resid,           \* the residuals of "mist"
    daily_counts,        \* rows of i_94 per day and weather description
    heatmaps,            \* the table of each heatmap drawn
    day_trim_full,       \* day_time up to its 99th percentile
    dt_reads             \* the cells that have derived a calendar attribute
                         \* from date_time, each with the attribute

\* the tables of the cells after the IQR filter that the daily series and
\* the t-test do not use
later == <<by_week_weekday, by_week_weekday_MA, by_weather_description,
           tmp_sorted, sc_resid, mst_resid, daily_counts, heatmaps,
           day_trim_full>>

vars == <<pc, i_94, day_time, night_time, day_time_no_out, by_month,
          by_month_iqr, month_condition, warm_season_daytime, sc_daily,
          mst_daily, all_days, r_scattered, r_mist, t_test, out, later,
          dt_reads>>

(* ------------------------------ datasets ------------------------------- *)
Hours == 0..23

Volumes == {0, 1, 2}

ScatteredVolumes == {0, 1, 3}

MistVolumes == {0, 1}

DailyWeathers == {"scattered clouds", "mist"}

RawRow(i, d, h, v, w) ==
    [idx |-> i - 1, date_time |-> <<d, h>>, traffic_volume |-> v,
     weather_description |-> w]

FirstOfApril == DaysBefore(4) + 1

LastOfApril == DaysBefore(5)

FirstOfMay == DaysBefore(5) + 1

\* the hours next to the limits of the day and of the daytime window
BoundaryHours == {0, 5, 6, 18, 19, 23}

\* datasets of one date, in time order, that vary the hour of day: every hour
\* in the one-row datasets, the boundary hours in the longer ones
DatasetsSplit ==
    UNION {
      { [i \in 1..n |-> RawRow(i, FirstOfApril, h[i], 1, "Scattered Clouds ")]
          : h \in {g \in [1..n -> IF n = 1 THEN Hours ELSE BoundaryHours] :
                      \A i \in 1..(n - 1) : g[i] <= g[i + 1]} }
      : n \in 1..MaxRowsSplit }

\* daytime datasets in time order over 30 April and 1 May that vary the
\* volume: all rows but the last or all rows are of April
DatasetsIqr ==
    UNION {
      { [i \in 1..n |-> RawRow(i, IF i <= a THEN LastOfApril ELSE FirstOfMay,
                              12, v[i], "haze")]
          : a \in {n - 1, n}, v \in [1..n -> Volumes] }
      : n \in 1..MaxRowsIqr }

\* daytime datasets in time order over 30 April and 1 May in which at least
\* one row has no traffic volume: all rows but the last or all rows are of April
DatasetsMissing ==
    UNION {
      { [i \in 1..n |-> RawRow(i, IF i <= a THEN LastOfApril ELSE FirstOfMay,
                              12, v[i], "haze")]
          : a \in {n - 1, n},
            v \in {w \in [1..n -> {NoVolume, 1}] : \E i \in 1..n : w[i] = NoVolume} }
      : n \in 1..MaxRowsMissing }

\* 31 March, which is out of the warm season, and 1, 2 and 4 April
DailyDates == {DaysBefore(4), FirstOfApril, FirstOfApril + 1, FirstOfApril + 3}

\* daytime datasets in time order that vary the date and the weather
DatasetsDaily ==
    UNION {
      { [i \in 1..n |-> RawRow(i, d[i], 12, i, w[i])]
          : d \in {e \in [1..n -> DailyDates] : \A i \in 1..(n - 1) : e[i] <= e[i + 1]},
            w \in [1..n -> DailyWeathers] }
      : n \in 1..MaxRowsDaily }

\* n days from 1 April on with a "scattered clouds" row each and the m = 2
\* days from 2 April on with a "mist" row each
DatasetsWelch ==
    UNION {
      { [i \in 1..(nm[1] + nm[2]) |->
            IF i <= nm[1]
            THEN RawRow(i, FirstOfApril + i - 1, 12, v[i], "scattered clouds")
            ELSE RawRow(i, FirstOfApril + i - nm[1], 12, w[i - nm[1]], "mist")]
          : v \in [1..nm[1] -> ScatteredVolumes], w \in [1..nm[2] -> MistVolumes] }
      : nm \in (2..MaxPairs) \X {2} }

\* five days with the volumes 100..500 under "scattered clouds" and 600..1000
\* under "mist"
DatasetExample ==
    [i \in 1..10 |->
        IF i <= 5 THEN RawRow(i, FirstOfApril + i - 1, 12, 100 * i, "scattered clouds")
        ELSE RawRow(i, FirstOfApril + i - 6, 12, 100 * i, "mist")]

\* "scattered clouds" on 1, 3 and 5 April with the daily means 10, 20 and 30
DatasetReindexExample ==
    [i \in 1..3 |-> RawRow(i, FirstOfApril + 2 * (i - 1), 12, 10 * i, "scattered clouds")]

\* one daytime row in each of n consecutive W-MON bins from January on, on the
\* Monday that ends the bin or the Sunday before it, with the volumes 10, 20,
\* 30, ...
DatasetsWeekly ==
    UNION {
      { [i \in 1..n |-> RawRow(i, 7 * i - c[i], 12, 10 * i, "scattered clouds")]
          : c \in [1..n -> {0, 1}] }
      : n \in 1..MaxWeeks }

\* two days with a row of "scattered clouds" and a row of "mist" each, which
\* the t-test accepts
LateBase ==
    <<RawRow(1, FirstOfApril, 12, 0, "scattered clouds"),
      RawRow(2, FirstOfApril, 12, 0, "mist"),
      RawRow(3, FirstOfApril + 1, 12, 1, "scattered clouds"),
      RawRow(4, FirstOfApril + 1, 12, 1, "mist")>>

\* the rows added to LateBase: a day after a gap, an earlier day out of time
\* order, two spellings of one weather, a day out of the warm season, a night
LateRows ==
    {[date_time |-> <<FirstOfApril + 3, 12>>, weather_description |-> "haze"],
     [date_time |-> <<FirstOfApril, 13>>, weather_description |-> "mist"],
     [date_time |-> <<FirstOfApril, 12>>, weather_description |-> "Sky is Clear"],
     [date_time |-> <<FirstOfApril + 1, 12>>, weather_description |-> "sky is clear"],
     [date_time |-> <<DaysBefore(4), 12>>, weather_description |-> "scattered clouds"],
     [date_time |-> <<FirstOfApril + 3, 5>>, weather_description |-> "mist"]}

\* LateBase followed by up to MaxRowsLate rows of LateRows with the volume 2
DatasetsLate ==
    UNION {
      { LateBase \o [i \in 1..n |->
                       RawRow(4 + i, e[i].date_time[1], e[i].date_time[2], 2,
                              e[i].weather_description)]
          : e \in [1..n -> LateRows] }
      : n \in 0..MaxRowsLate }

Datasets == DatasetsSplit \cup DatasetsIqr \cup DatasetsDaily \cup DatasetsWelch
              \cup DatasetsWeekly \cup DatasetsLate \cup DatasetsMissing
              \cup {DatasetExample, DatasetReindexExample}

(* ------------------------------ the script ----------------------------- *)
\* pd.read_csv has run: the raw columns, a RangeIndex, date_time still a string
Init ==
    /\ pc = "load"
    /\ i_94 \in Datasets
    /\ day_time = <<>>
    /\ night_time = <<>>
    /\ day_time_no_out = <<>>
    /\ by_month = <<>>
    /\ by_month_iqr = <<>>
    /\ month_condition = {}
    /\ warm_season_daytime = <<>>
    /\ sc_daily = <<>>
    /\ mst_daily = <<>>
    /\ all_days = <<>>
    /\ r_scattered = <<>>
    /\ r_mist = <<>>
    /\ t_test = [ran |-> FALSE]
    /\ out = <<>>
    /\ by_week_weekday = <<>>
    /\ by_week_weekday_MA = <<>>
    /\ by_weather_description = {}
    /\ tmp_sorted = <<>>
    /\ sc_resid = <<>>
    /\ mst_resid = <<>>
    /\ daily_counts = <<>>
    /\ heatmaps = <<>>
    /\ day_trim_full = <<>>
    /\ dt_reads = {}

\* the derived calendar columns of one row
WithCalendar(r) ==
    [idx |-> r.idx, date_time |-> r.date_time,
     traffic_volume |-> r.traffic_volume,
     weather_description |-> r.weather_description,
     date_only |-> r.date_time[1], hour |-> r.date_time[2],
     day |-> DayOf(r.date_time[1]), month |-> MonthOf(r.date_time[1]),
     year |-> Year]

Load ==
    /\ pc = "load"
    /\ i_94' = [i \in 1..Len(i_94) |-> WithCalendar(i_94[i])]
    /\ pc' = "split"
    /\ UNCHANGED <<day_time, night_time, day_time_no_out, by_month,
                   by_month_iqr, month_condition, warm_season_daytime,
                   sc_daily, mst_daily, all_days, r_scattered, r_mist, t_test,
                   out>>
    /\ dt_reads' = {<<"load", a>> : a \in {"date_only", "hour", "day", "month", "year"}}
    /\ UNCHANGED later

IsDaytime(r) == r.hour >= 6 /\ r.hour <= 18

IsNighttimeFrom18(r) == r.hour >= 18 \/ r.hour < 6

IsNighttime(r) == r.hour > 18 \/ r.hour < 6

Split ==
    /\ pc = "split"
    /\ day_time' = SelectSeq(i_94, IsDaytime)
    /\ night_time' = SelectSeq(i_94, IsNighttime)
    /\ out' = Append(out, [cell |-> "split",
                           shapes |-> <<Len(day_time'), Len(night_time')>>,
                           conserved |-> Len(day_time') + Len(night_time') = Len(i_94)])
    /\ pc' = "iqr"
    /\ UNCHANGED <<i_94, day_time_no_out, by_month, by_month_iqr,
                   month_condition, warm_season_daytime, sc_daily, mst_daily,
                   all_days, r_scattered, r_mist, t_test>>
    /\ UNCHANGED <<later, dt_reads>>

\* the IQR multiplier k = 1.5
k == Rat(3, 2)

\* day_time.dropna(subset=["month", "traffic_volume"]).copy()
day_time_clean(df) ==
    SelectSeq(df, LAMBDA r : r.month \in Int /\ ~IsNaN(VolumeOf(r)))

q1_all_rows(df) ==
    LET all == [i \in 1..Len(df) |-> VolumeOf(df[i])]
    IN  [i \in 1..Len(df) |-> Quantile(all, Rat(1, 4))]

\* g.transform(lambda s: s.quantile(0.25)): every row gets its month's quartile
q1(df) == [i \in 1..Len(df) |-> Quantile(MonthVolumes(df, df[i].month), Rat(1, 4))]

q3_lower_quartile(df) ==
    [i \in 1..Len(df) |-> Quantile(MonthVolumes(df, df[i].month), Rat(1, 4))]

\* g.transform(lambda s: s.quantile(0.75))
q3(df) == [i \in 1..Len(df) |-> Quantile(MonthVolumes(df, df[i].month), Rat(3, 4))]

iqr(df) ==
    LET a == q1(df)
        b == q3(df)
    IN  [i \in 1..Len(df) |-> RSub(b[i], a[i])]

lower(df) ==
    LET a == q1(df)
        w == iqr(df)
    IN  [i \in 1..Len(df) |-> RSub(a[i], RMul(k, w[i]))]

upper(df) ==
    LET b == q3(df)
        w == iqr(df)
    IN  [i \in 1..Len(df) |-> RAdd(b[i], RMul(k, w[i]))]

\* the rows of the cleaned table within their month's bounds
NoOut(df) ==
    LET clean == day_time_clean(df)
        lo == lower(clean)
        hi == upper(clean)
        kept == SelectSeq([i \in 1..Len(clean) |-> i],
                          LAMBDA i : /\ RLe(lo[i], VolumeOf(clean[i]))
                                     /\ RLe(VolumeOf(clean[i]), hi[i]))
    IN  [p \in 1..Len(kept) |-> clean[kept[p]]]

IqrFilter ==
    /\ pc = "iqr"
    /\ day_time_no_out' = NoOut(day_time)
    /\ by_month_iqr' = MeanByMonth(day_time_no_out')
    /\ by_month' = MeanByMonth(day_time)
    /\ out' = Append(out, [cell |-> "iqr", by_month |-> by_month',
                           by_month_iqr |-> by_month_iqr'])
    /\ pc' = "weekly"
    /\ UNCHANGED <<i_94, day_time, night_time, month_condition,
                   warm_season_daytime, sc_daily, mst_daily, all_days,
                   r_scattered, r_mist, t_test>>
    /\ UNCHANGED <<later, dt_reads>>

\* the weekly means per day of the week and their moving average over 4
\* weeks, partial windows allowed
WeeklyAverages ==
    /\ pc = "weekly"
    /\ by_week_weekday' = WeekByWeekday(day_time)
    /\ by_week_weekday_MA' = Rolling(by_week_weekday', 4, 1)
    /\ dt_reads' = dt_reads \cup {<<"weekly", "dayofweek">>}
    /\ pc' = "dayofweek"
    /\ UNCHANGED <<i_94, day_time, night_time, day_time_no_out, by_month,
                   by_month_iqr, month_condition, warm_season_daytime,
                   sc_daily, mst_daily, all_days, r_scattered, r_mist, t_test,
                   out, by_weather_description, tmp_sorted, sc_resid,
                   mst_resid, daily_counts, heatmaps, day_trim_full>>

\* a row of day_time with the column dayofweek
WithDayOfWeek(r) ==
    [idx |-> r.idx, date_time |-> r.date_time,
     traffic_volume |-> r.traffic_volume,
     weather_description |-> r.weather_description,
     date_only |-> r.date_only, hour |-> r.hour, day |-> r.day,
     month |-> r.month, year |-> r.year,
     dayofweek |-> DayOfWeek(r.date_time[1])]

\* day_time["dayofweek"] = day_time["date_time"].dt.dayofweek: the column is
\* added to day_time itself
AddDayOfWeek ==
    /\ pc = "dayofweek"
    /\ day_time' = [i \in 1..Len(day_time) |-> WithDayOfWeek(day_time[i])]
    /\ dt_reads' = dt_reads \cup {<<"dayofweek", "dayofweek">>}
    /\ pc' = "by_weather"
    /\ UNCHANGED <<i_94, night_time, day_time_no_out, by_month, by_month_iqr,
                   month_condition, warm_season_daytime, sc_daily, mst_daily,
                   all_days, r_scattered, r_mist, t_test, out, later>>

\* the mean traffic volume per weather description, grouped on the strings
\* day_time holds when the cell runs
ByWeatherDescription ==
    /\ pc = "by_weather"
    /\ by_weather_description' = MeanByWeather(day_time)
    /\ pc' = "normalize"
    /\ UNCHANGED <<i_94, day_time, night_time, day_time_no_out, by_month,
                   by_month_iqr, month_condition, warm_season_daytime,
                   sc_daily, mst_daily, all_days, r_scattered, r_mist, t_test,
                   out, by_week_weekday, by_week_weekday_MA, tmp_sorted,
                   sc_resid, mst_resid, daily_counts, heatmaps, day_trim_full,
                   dt_reads>>

\* str.strip().str.lower() of the weather descriptions of the datasets
StripLower(w) ==
    CASE w = "Scattered Clouds " -> "scattered clouds"
      [] w = "Sky is Clear" -> "sky is clear"
      [] OTHER -> w

\* day_time["weather_description"] is normalized in place; month_condition is
\* taken from date_time
NormalizeWeather ==
    /\ pc = "normalize"
    /\ day_time' = [i \in 1..Len(day_time) |->
                      [day_time[i] EXCEPT !.weather_description = StripLower(@)]]
    /\ month_condition' =
          {day_time[i].idx : i \in {j \in 1..Len(day_time) :
              /\ 4 <= MonthOf(day_time[j].date_time[1])
              /\ MonthOf(day_time[j].date_time[1]) <= 10}}
    /\ pc' = "warm_season"
    /\ UNCHANGED <<i_94, night_time, day_time_no_out, by_month, by_month_iqr,
                   warm_season_daytime, sc_daily, mst_daily, all_days,
                   r_scattered, r_mist, t_test, out>>
    /\ dt_reads' = dt_reads \cup {<<"normalize", "month">>}
    /\ UNCHANGED later

WarmSeason ==
    /\ pc = "warm_season"
    /\ warm_season_daytime' = SelectSeq(day_time, LAMBDA r : r.idx \in month_condition)
    /\ pc' = "daily"
    /\ UNCHANGED <<i_94, day_time, night_time, day_time_no_out, by_month,
                   by_month_iqr, month_condition, sc_daily, mst_daily,
                   all_days, r_scattered, r_mist, t_test, out>>
    /\ UNCHANGED <<later, dt_reads>>

\* warm_season_daytime.sort_values("date_time").copy() with date_only set anew
warm_season_daytime_sorted(df) ==
    LET sorted == SortValuesDateTime(df)
    IN  [i \in 1..Len(sorted) |-> [sorted[i] EXCEPT !.date_only = sorted[i].date_time[1]]]

\* the axis reaching from the earliest to the latest date of s alone
OwnDays(sc, mst, s) == date_range(IndexMin(s), IndexMax(s))

\* the date axis a daily series s is reindexed onto: from the earliest to the
\* latest date of the two series sc and mst
ReindexDays(sc, mst, s) ==
    date_range(PyMin(IndexMin(sc), IndexMin(mst)), PyMax(IndexMax(sc), IndexMax(mst)))

\* pd.date_range raises ValueError when its start or end is NaT
DateRangeRaises(sc, mst) ==
    \/ PyMin(IndexMin(sc), IndexMin(mst)) = NaT
    \/ PyMax(IndexMax(sc), IndexMax(mst)) = NaT

DailySeries ==
    /\ pc = "daily"
    /\ LET sorted == warm_season_daytime_sorted(warm_season_daytime)
           sc == DailyMean(sorted, "scattered clouds")
           mst == DailyMean(sorted, "mist")
       IN  IF DateRangeRaises(sc, mst)
           THEN /\ sc_daily' = sc
                /\ mst_daily' = mst
                /\ all_days' = all_days
                /\ out' = Append(out, [cell |-> "daily", error |-> "ValueError"])
                /\ pc' = "error"
           ELSE /\ all_days' = ReindexDays(sc, mst, sc)
                /\ sc_daily' = reindex(sc, ReindexDays(sc, mst, sc))
                /\ mst_daily' = reindex(mst, ReindexDays(sc, mst, mst))
                /\ out' = out
                /\ pc' = "check_sc"
    /\ UNCHANGED <<i_94, day_time, night_time, day_time_no_out, by_month,
                   by_month_iqr, month_condition, warm_season_daytime,
                   r_scattered, r_mist, t_test>>
    /\ dt_reads' = dt_reads \cup {<<"daily", "date_only">>}
    /\ UNCHANGED later

CheckSc ==
    /\ pc = "check_sc"
    /\ out' = Append(out, check_daily_series("sc_daily", sc_daily))
    /\ pc' = "check_mst"
    /\ UNCHANGED <<i_94, day_time, night_time, day_time_no_out, by_month,
                   by_month_iqr, month_condition, warm_season_daytime,
                   sc_daily, mst_daily, all_days, r_scattered, r_mist, t_test>>
    /\ UNCHANGED <<later, dt_reads>>

CheckMst ==
    /\ pc = "check_mst"
    /\ out' = Append(out, check_daily_series("mst_daily", mst_daily))
    /\ pc' = "resid"
    /\ UNCHANGED <<i_94, day_time, night_time, day_time_no_out, by_month,
                   by_month_iqr, month_condition, warm_season_daytime,
                   sc_daily, mst_daily, all_days, r_scattered, r_mist, t_test>>
    /\ UNCHANGED <<later, dt_reads>>

\* the residual cell: tmp is a copy of warm_season_daytime, tmp_sorted its
\* rows in time order; the mask of sc_resid is taken on tmp_sorted, the mask
\* of mst_resid on tmp
Residuals ==
    /\ pc = "resid"
    /\ tmp_sorted' = Residualize(warm_season_daytime)
    /\ sc_resid' = dropna(LocResid(tmp_sorted', tmp_sorted',
                                   WeatherMask(tmp_sorted', "scattered clouds")))
    /\ mst_resid' = dropna(LocResid(tmp_sorted', warm_season_daytime,
                                    WeatherMask(warm_season_daytime, "mist")))
    /\ dt_reads' = dt_reads \cup {<<"resid", "hour">>, <<"resid", "dayofweek">>}
    /\ pc' = "t_test"
    /\ UNCHANGED <<i_94, day_time, night_time, day_time_no_out, by_month,
                   by_month_iqr, month_condition, warm_season_daytime,
                   sc_daily, mst_daily, all_days, r_scattered, r_mist, t_test,
                   out, by_week_weekday, by_week_weekday_MA,
                   by_weather_description, daily_counts, heatmaps,
                   day_trim_full>>

\* FloatVector(s.tolist()): the values of the series, NaN included
FloatVector(s) == [i \in 1..Len(s) |-> s[i].val]

\* the t-test cell: R stops with an error, which rpy2 raises and which ends the
\* script before anything is printed, or the result is read and printed
WelchTest ==
    /\ pc = "t_test"
    /\ r_scattered' = FloatVector(sc_daily)
    /\ r_mist' = FloatVector(mst_daily)
    /\ IF TTestError(r_scattered', r_mist') # "none"
       THEN /\ t_test' = t_test
            /\ out' = Append(out, [cell |-> "t_test", error |-> "RRuntimeError",
                                   message |-> TTestError(r_scattered', r_mist')])
            /\ pc' = "error"
       ELSE /\ t_test' = TTest(r_scattered', r_mist')
            /\ out' = Append(out, [cell |-> "t_test", error |-> "none",
                                   t_value |-> t_test'.statistic,
                                   df |-> t_test'.parameter,
                                   p_value |-> t_test'.p_value,
                                   conf_interval |-> t_test'.conf_int,
                                   means |-> t_test'.estimate])
            /\ pc' = "counts"
    /\ UNCHANGED <<i_94, day_time, night_time, day_time_no_out, by_month,
                   by_month_iqr, month_condition, warm_season_daytime,
                   sc_daily, mst_daily, all_days>>
    /\ UNCHANGED <<later, dt_reads>>

\* the daily count table of i_94 on the axis of all its days; all_days is
\* assigned anew
CountDaily ==
    /\ pc = "counts"
    /\ all_days' = LET dates == SortedSeq({i_94[i].date_only : i \in 1..Len(i_94)})
                   IN  date_range(dates[1], dates[Len(dates)])
    /\ daily_counts' = DailyCounts(i_94, all_days')
    /\ pc' = "spacing"
    /\ UNCHANGED <<i_94, day_time, night_time, day_time_no_out, by_month,
                   by_month_iqr, month_condition, warm_season_daytime,
                   sc_daily, mst_daily, r_scattered, r_mist, t_test, out,
                   by_week_weekday, by_week_weekday_MA,
                   by_weather_description, tmp_sorted, sc_resid, mst_resid,
                   heatmaps, day_trim_full, dt_reads>>

\* the spacing check of daily_counts
CheckSpacing ==
    /\ pc = "spacing"
    /\ LET diffs == IndexDiffs(daily_counts)
           n_days == Len(daily_counts)
           days_span == IndexMax(daily_counts) - IndexMin(daily_counts)
       IN  out' = Append(out, [cell |-> "spacing",
                               all_daily |-> \A i \in 1..Len(diffs) : diffs[i] = 1,
                               n_days |-> n_days,
                               days_span |-> days_span,
                               one_row_per_day |-> n_days = days_span + 1])
    /\ pc' = "heatmap"
    /\ UNCHANGED <<i_94, day_time, night_time, day_time_no_out, by_month,
                   by_month_iqr, month_condition, warm_season_daytime,
                   sc_daily, mst_daily, all_days, r_scattered, r_mist, t_test,
                   later, dt_reads>>

target_weathers == <<"scattered clouds", "haze", "mist">>

\* for w in target_weathers: plot_weather_heatmap(w, normalize=True)
Heatmaps ==
    /\ pc = "heatmap"
    /\ heatmaps' = [i \in 1..Len(target_weathers) |->
                      [weather |-> target_weathers[i],
                       data |-> HeatmapData(warm_season_daytime, target_weathers[i])]]
    /\ pc' = "trim"
    /\ UNCHANGED <<i_94, day_time, night_time, day_time_no_out, by_month,
                   by_month_iqr, month_condition, warm_season_daytime,
                   sc_daily, mst_daily, all_days, r_scattered, r_mist, t_test,
                   out, by_week_weekday, by_week_weekday_MA,
                   by_weather_description, tmp_sorted, sc_resid, mst_resid,
                   daily_counts, day_trim_full, dt_reads>>

\* the 99th percentile of the traffic volumes of df
p99_full(df) == Quantile([i \in 1..Len(df) |-> VolumeOf(df[i])], Rat(99, 100))

TrimInPlace ==
    /\ pc = "trim"
    /\ LET daytime_clean == SelectSeq(day_time, LAMBDA r : ~IsNaN(VolumeOf(r)))
       IN  /\ day_trim_full' = daytime_clean
           /\ i_94' = SelectSeq(i_94, LAMBDA r : RLe(VolumeOf(r),
                                                     p99_full(daytime_clean)))
    /\ pc' = "done"
    /\ UNCHANGED <<day_time, night_time, day_time_no_out, by_month,
                   by_month_iqr, month_condition, warm_season_daytime,
                   sc_daily, mst_daily, all_days, r_scattered, r_mist, t_test,
                   out, by_week_weekday, by_week_weekday_MA,
                   by_weather_description, tmp_sorted, sc_resid, mst_resid,
                   daily_counts, heatmaps, dt_reads>>

\* the rows of the cleaned day_time up to the 99th percentile, a new table
Trim ==
    /\ pc = "trim"
    /\ LET daytime_clean == SelectSeq(day_time, LAMBDA r : ~IsNaN(VolumeOf(r)))
       IN  day_trim_full' =
              SelectSeq(daytime_clean,
                        LAMBDA r : RLe(VolumeOf(r), p99_full(daytime_clean)))
    /\ pc' = "done"
    /\ UNCHANGED <<i_94, day_time, night_time, day_time_no_out, by_month,
                   by_month_iqr, month_condition, warm_season_daytime,
                   sc_daily, mst_daily, all_days, r_scattered, r_mist, t_test,
                   out, by_week_weekday, by_week_weekday_MA,
                   by_weather_description, tmp_sorted, sc_resid, mst_resid,
                   daily_counts, heatmaps, dt_reads>>

Next ==
    \/ Load
    \/ Split
    \/ IqrFilter
    \/ WeeklyAverages
    \/ AddDayOfWeek
    \/ ByWeatherDescription
    \/ NormalizeWeather
    \/ WarmSeason
    \/ DailySeries
    \/ CheckSc
    \/ CheckMst
    \/ Residuals
    \/ WelchTest
    \/ CountDaily
    \/ CheckSpacing
    \/ Heatmaps
    \/ Trim

Spec == Init /\ [][Next]_vars

(* ------------------------------ properties ----------------------------- *)
IdxSet(df) == {df[i].idx : i \in 1..Len(df)}

SplitDone == pc \notin {"load", "split"}

\* C1: once the split has run, the daytime and nighttime subsets share no row,
\* every row of i_94 is in one of them exactly once, and their lengths add up
\* to the length of i_94 (which the script's own check displays as True).
C1_DayNightPartition ==
    SplitDone =>
        /\ IdxSet(day_time) \cap IdxSet(night_time) = {}
        /\ IdxSet(day_time) \cup IdxSet(night_time) = IdxSet(i_94)
        /\ Cardinality(IdxSet(day_time)) = Len(day_time)
        /\ Cardinality(IdxSet(night_time)) = Len(night_time)
        /\ Len(day_time) + Len(night_time) = Len(i_94)
        /\ \A i \in 1..Len(i_94) :
              /\ i_94[i].idx \in IdxSet(day_time) <=>
                    (6 <= i_94[i].hour /\ i_94[i].hour <= 18)
              /\ i_94[i].hour \in 0..23
        /\ \E e \in Range(out) : e.cell = "split" /\ e.conserved

\* C1 witness: the split has run on a dataset with a row at hour 18 in the
\* daytime subset and a row in the nighttime subset.
C1_Witness ==
    /\ SplitDone
    /\ \E i \in 1..Len(day_time) : day_time[i].hour = 18
    /\ Len(night_time) > 0

\* the volumes that the rows of df in month m have, ascending
SortedMonthInts(df, m) ==
    LET rows == SelectSeq(df, LAMBDA r : r.month = m /\ r.traffic_volume # NoVolume)
        vals == [i \in 1..Len(rows) |-> ToRat(rows[i].traffic_volume)]
        s == SortedValues(vals)
    IN  [i \in 1..Len(s) |-> s[i][1]]

\* four times the quantile j/4 of an ascending integer sequence s
FourTimesQuartile(s, j) ==
    LET n == Len(s)
        lo == (j * (n - 1)) \div 4
        rem == (j * (n - 1)) % 4
    IN  IF rem = 0 THEN 4 * s[lo + 1]
        ELSE 4 * s[lo + 1] + rem * (s[lo + 2] - s[lo + 1])

\* v lies in [Q1 - 1.5 IQR, Q3 + 1.5 IQR] of the month-m rows of df alone
\* (the inequality multiplied by 8)
WithinMonthBounds(df, m, v) ==
    LET s == SortedMonthInts(df, m)
        a == FourTimesQuartile(s, 1)
        b == FourTimesQuartile(s, 3)
    IN  /\ v # NoVolume
        /\ 2 * a - 3 * (b - a) <= 8 * v
        /\ 8 * v <= 2 * b + 3 * (b - a)

\* the IQR cell has just run
IqrJustRun == pc = "weekly"

\* C2: after the IQR cell a daytime row is retained exactly when its volume is
\* within [Q1 - 1.5 IQR, Q3 + 1.5 IQR] of the rows of its own month, and the
\* retained rows of a month are those the filter retains when it is run on the
\* rows of that month alone, so the rows of other months never change them.
C2_PerMonthIqr ==
    IqrJustRun =>
        /\ \A i \in 1..Len(day_time) :
              day_time[i].idx \in IdxSet(day_time_no_out) <=>
                 WithinMonthBounds(day_time, day_time[i].month,
                                   day_time[i].traffic_volume)
        /\ \A i \in 1..Len(day_time_no_out) :
              \E j \in 1..Len(day_time) :
                 /\ day_time[j].idx = day_time_no_out[i].idx
                 /\ day_time[j].month = day_time_no_out[i].month
                 /\ day_time[j].traffic_volume = day_time_no_out[i].traffic_volume
        /\ \A m \in {day_time[i].month : i \in 1..Len(day_time)} :
              IdxSet(NoOut(SelectSeq(day_time, LAMBDA r : r.month = m)))
                 = IdxSet(SelectSeq(day_time_no_out, LAMBDA r : r.month = m))

\* C2 witness: the filter has run on two months, dropped a row of one month and
\* kept a row with the same volume in the other month.
C2_Witness ==
    /\ IqrJustRun
    /\ \E i, j \in 1..Len(day_time) :
          /\ day_time[i].month # day_time[j].month
          /\ day_time[i].traffic_volume = day_time[j].traffic_volume
          /\ day_time[i].idx \notin IdxSet(day_time_no_out)
          /\ day_time[j].idx \in IdxSet(day_time_no_out)

(* the t-test cell *)
TTestCellRan == \E e \in Range(out) : e.cell = "t_test"

\* the two samples without their missing values
SampleA == NotNa(r_scattered)

SampleB == NotNa(r_mist)

RECURSIVE SumOfSquares(_)
SumOfSquares(x) ==
    IF x = <<>> THEN ToRat(0) ELSE RAdd(RMul(x[1], x[1]), SumOfSquares(Tail(x)))

\* s^2 = (sum of x^2 - (sum of x)^2 / n) / (n - 1)
SampleVariance(x) ==
    RDiv(RSub(SumOfSquares(x), RDiv(RMul(SumSeq(x), SumSeq(x)), ToRat(Len(x)))),
         ToRat(Len(x) - 1))

\* s^2 / n
VarianceOverN(x) == RDiv(SampleVariance(x), ToRat(Len(x)))

ExampleA == [i \in 1..5 |-> ToRat(100 * i)]

ExampleB == [i \in 1..5 |-> ToRat(100 * i + 500)]

\* the standard error of the difference of the sample means is not 0
NonDegenerate == RAdd(VarianceOverN(SampleA), VarianceOverN(SampleB))[1] # 0

\* C3: a reported test result is Welch's: the means are the sample means and,
\* unless both samples are constant, t has
\* the sign of mean(A) - mean(B) and t^2 (s2_A/n_A + s2_B/n_B) equals
\* (mean(A) - mean(B))^2, df times (s2_A/n_A)^2/(n_A-1) + (s2_B/n_B)^2/(n_B-1)
\* equals (s2_A/n_A + s2_B/n_B)^2, with the n-1 variances; for the samples
\* 100..500 and 600..1000 the means are 300 and 800 and t is negative.
C3_WelchStatistic ==
    t_test.ran =>
        LET A == SampleA
            B == SampleB
            se2 == RAdd(VarianceOverN(A), VarianceOverN(B))
            diff == RSub(t_test.estimate[1], t_test.estimate[2])
        IN  /\ Len(A) >= 2 /\ Len(B) >= 2
            /\ RMul(t_test.estimate[1], ToRat(Len(A))) = SumSeq(A)
            /\ RMul(t_test.estimate[2], ToRat(Len(B))) = SumSeq(B)
            /\ NonDegenerate =>
                  /\ t_test.statistic.sgn = Sign(diff[1])
                  /\ ~IsNaN(t_test.statistic.sq)
                  /\ RMul(t_test.statistic.sq, se2) = RMul(diff, diff)
                  /\ ~IsNaN(t_test.parameter)
                  /\ RMul(t_test.parameter,
                          RAdd(RDiv(RMul(VarianceOverN(A), VarianceOverN(A)),
                                    ToRat(Len(A) - 1)),
                               RDiv(RMul(VarianceOverN(B), VarianceOverN(B)),
                                    ToRat(Len(B) - 1))))
                       = RMul(se2, se2)
            /\ (A = ExampleA /\ B = ExampleB) =>
                  /\ t_test.estimate = <<ToRat(300), ToRat(800)>>
                  /\ t_test.statistic.sgn = -1
            /\ \E i \in 1..Len(out) :
                  /\ out[i].cell = "t_test"
                  /\ out[i].t_value = t_test.statistic
                  /\ out[i].df = t_test.parameter
                  /\ out[i].means = t_test.estimate

\* C3 witness: the test has reported a result for samples of different sizes
\* and different variances.
C3_Witness ==
    /\ t_test.ran
    /\ Len(SampleA) # Len(SampleB)
    /\ SampleVariance(SampleA) # SampleVariance(SampleB)
    /\ t_test.statistic.sgn = -1

\* C4: swapping the two samples negates t and leaves df and p as they are, and
\* two identical samples of non-zero variance give t = 0.
C4_SwapSymmetry ==
    (t_test.ran /\ NonDegenerate) =>
        LET swapped == TTest(r_mist, r_scattered)
        IN  /\ TTestError(r_mist, r_scattered) = "none"
            /\ swapped.statistic.sgn = -t_test.statistic.sgn
            /\ swapped.statistic.sq = t_test.statistic.sq
            /\ ~IsNaN(t_test.statistic.sq)
            /\ swapped.parameter = t_test.parameter
            /\ swapped.p_value = t_test.p_value
            /\ (SampleA = SampleB /\ SampleVariance(SampleA)[1] # 0) =>
                  /\ t_test.statistic.sgn = 0
                  /\ t_test.statistic.sq = ToRat(0)

\* C4 witness: the test has reported a positive t for two different samples.
C4_Witness ==
    /\ t_test.ran
    /\ t_test.statistic.sgn = 1
    /\ Len(SampleA) # Len(SampleB)

\* C5: when a sample has fewer than 2 non-missing values the t-test cell ends
\* in an error and prints no result.
C5_TooFewIsError ==
    (TTestCellRan /\ (Len(SampleA) < 2 \/ Len(SampleB) < 2)) =>
        /\ pc = "error"
        /\ ~t_test.ran
        /\ \A e \in Range(out) : e.cell = "t_test" => e.error = "RRuntimeError"

\* C5 witness: the t-test cell has run with exactly one non-missing "mist"
\* value and two "scattered clouds" values.
C5_Witness ==
    /\ TTestCellRan
    /\ Len(SampleB) = 1
    /\ Len(SampleA) >= 2

AllEqual(x) == \A i \in 1..Len(x) : x[i] = x[1]

\* C6: when both samples are constant and their means differ, the t-test cell
\* ends in the error "data are essentially constant" and reports no result.
C6_DegenerateIsError ==
    (/\ TTestCellRan
     /\ Len(SampleA) >= 2 /\ Len(SampleB) >= 2
     /\ AllEqual(SampleA) /\ AllEqual(SampleB)
     /\ SampleA[1] # SampleB[1]) =>
        /\ pc = "error"
        /\ ~t_test.ran
        /\ \A e \in Range(out) : e.cell = "t_test" =>
              e.error = "RRuntimeError" /\ e.message = "data are essentially constant"

\* C6 witness: the t-test cell has run on two constant samples of different
\* means.
C6_Witness ==
    /\ TTestCellRan
    /\ Len(SampleA) >= 2 /\ Len(SampleB) >= 2
    /\ AllEqual(SampleA) /\ AllEqual(SampleB)
    /\ SampleA[1] # SampleB[1]

\* C7: the two vectors handed to the test hold no missing value.
C7_NoMissingHandedOver ==
    TTestCellRan =>
        /\ \A i \in 1..Len(r_scattered) : ~IsNaN(r_scattered[i])
        /\ \A i \in 1..Len(r_mist) : ~IsNaN(r_mist[i])

(* the daily series *)
\* the reindexing cell has completed and all_days is still its date axis
DailyDone == all_days # <<>> /\ daily_counts = <<>>

\* the dates on which weather w is observed in the warm-season daytime rows
ObservedDates(w) ==
    {warm_season_daytime[i].date_time[1] :
        i \in {j \in 1..Len(warm_season_daytime) :
                  warm_season_daytime[j].weather_description = w}}

\* the volumes observed under weather w on date d
ObservedVolumes(w, d) ==
    LET rows == SelectSeq(warm_season_daytime,
                          LAMBDA r : r.weather_description = w /\ r.date_time[1] = d)
    IN  [i \in 1..Len(rows) |-> ToRat(rows[i].traffic_volume)]

MinOf(S) == CHOOSE x \in S : \A y \in S : x <= y

MaxOf(S) == CHOOSE x \in S : \A y \in S : y <= x

\* series s holds, on every date of all_days, the mean of weather w's volumes
\* of that date, and NaN where w is not observed
HoldsDailyMeans(s, w) ==
    /\ Len(s) = Len(all_days)
    /\ \A i \in 1..Len(s) :
          /\ s[i].idx = all_days[i]
          /\ IsNaN(s[i].val) <=> all_days[i] \notin ObservedDates(w)
          /\ all_days[i] \in ObservedDates(w) =>
                RMul(s[i].val, ToRat(Len(ObservedVolumes(w, all_days[i]))))
                   = SumSeq(ObservedVolumes(w, all_days[i]))

CheckEntries == {e \in Range(out) : e.cell = "check_daily_series"}

SeriesNamed(name) == IF name = "sc_daily" THEN sc_daily ELSE mst_daily

\* C9: for every series it is called on, check_daily_series reports that the
\* full date axis has one-day spacing, and the axis is one of consecutive days,
\* whatever values are missing and also when the axis is a single day.
C9_FullAxisDaily ==
    \A e \in CheckEntries :
        LET s == SeriesNamed(e.name)
        IN  /\ e.is_daily_full
            /\ e.total = Len(s)
            /\ Len(s) >= 1
            /\ \A i \in 1..(Len(s) - 1) : s[i + 1].idx = s[i].idx + 1

\* C9 witness: check_daily_series has run on a series of more than two days
\* with a missing value.
C9_Witness ==
    \E e \in CheckEntries : e.is_daily_full /\ e.total > 2 /\ e.non_nan < e.total

\* the dates of series s that hold a value
NonMissingDates(s) == {s[i].idx : i \in {j \in 1..Len(s) : ~IsNaN(s[j].val)}}

\* a date without a value lies between two dates with a value
HasInnerGap(s) ==
    \E a, b \in NonMissingDates(s) :
        \E d \in (a + 1)..(b - 1) : d \notin NonMissingDates(s)

\* C10: check_daily_series reports the share of consecutive non-missing dates
\* one day apart: it is 1 exactly when no missing day lies between two
\* non-missing days and below 1 otherwise, while the full axis is still
\* reported as daily; with fewer than 2 non-missing values it reports that the
\* gaps cannot be assessed and no ratio.  The printed figure is the ratio
\* rounded to three decimals.
C10_NonMissingRatio ==
    \A e \in CheckEntries :
        LET D == NonMissingDates(SeriesNamed(e.name))
            adjacent == {d \in D : d + 1 \in D}
        IN  /\ e.non_nan = Cardinality(D)
            /\ e.not_enough <=> Cardinality(D) < 2
            /\ e.not_enough => IsNaN(e.ratio_1day)
            /\ ~e.not_enough =>
                  /\ e.ratio_1day = Rat(Cardinality(adjacent), Cardinality(D) - 1)
                  /\ e.ratio_1day = ToRat(1) <=> ~HasInnerGap(SeriesNamed(e.name))
                  /\ HasInnerGap(SeriesNamed(e.name)) =>
                        RLt(e.ratio_1day, ToRat(1)) /\ e.is_daily_full
                  /\ 2 * Abs(1000 * e.ratio_1day[1] - e.printed_ratio * e.ratio_1day[2])
                        <= e.ratio_1day[2]

\* C10 witness: check_daily_series has reported a ratio below 1 and above 0
\* for a series whose full axis it reports as daily.
C10_Witness ==
    \E e \in CheckEntries :
        /\ ~e.not_enough
        /\ RLt(e.ratio_1day, ToRat(1))
        /\ RLt(ToRat(0), e.ratio_1day)
        /\ e.is_daily_full

(* the daily counts *)
\* the counts cell has run
CountsDone == daily_counts # <<>>

\* the first and the last date of the base table
FirstDate == MinOf({i_94[i].date_only : i \in 1..Len(i_94)})

LastDate == MaxOf({i_94[i].date_only : i \in 1..Len(i_94)})

\* the sum of the counts of the weather descriptions S in a row
RECURSIVE SumRow(_, _)
SumRow(row, S) ==
    IF S = {} THEN ToRat(0)
    ELSE LET w == CHOOSE x \in S : TRUE
         IN  RAdd(row[w], SumRow(row, S \ {w}))

\* C11: daily_counts has one row for every calendar date from the first to
\* the last date of the base table, in order and one day apart, as the spacing
\* check prints; every entry is the number of rows of that date and weather
\* description, 0 and never NaN where there is none; the counts add up to the
\* number of rows of the base table.
C11_DailyCounts ==
    CountsDone =>
        /\ Len(daily_counts) = LastDate - FirstDate + 1
        /\ \A p \in 1..Len(daily_counts) :
              /\ daily_counts[p].idx = FirstDate + p - 1
              /\ DOMAIN daily_counts[p].row =
                    {i_94[i].weather_description : i \in 1..Len(i_94)}
              /\ \A w \in DOMAIN daily_counts[p].row :
                    /\ ~IsNaN(daily_counts[p].row[w])
                    /\ daily_counts[p].row[w] =
                          ToRat(Cardinality({i \in 1..Len(i_94) :
                                    /\ i_94[i].date_time[1] = FirstDate + p - 1
                                    /\ i_94[i].weather_description = w}))
        /\ SumSeq([p \in 1..Len(daily_counts) |->
                     SumRow(daily_counts[p].row, DOMAIN daily_counts[p].row)])
              = ToRat(Len(i_94))
        /\ \A e \in Range(out) :
              e.cell = "spacing" =>
                 /\ e.all_daily
                 /\ e.one_row_per_day
                 /\ e.n_days = e.days_span + 1

\* C11 witness: the spacing check has run on a table with a day without any
\* row and a day with a row of one weather and none of another.
C11_Witness ==
    /\ CountsDone
    /\ \E e \in Range(out) : e.cell = "spacing"
    /\ \E p \in 1..Len(daily_counts) :
          \A w \in DOMAIN daily_counts[p].row : daily_counts[p].row[w] = ToRat(0)
    /\ \E p \in 1..Len(daily_counts) :
          \E v, w \in DOMAIN daily_counts[p].row :
              daily_counts[p].row[v] = ToRat(0) /\ daily_counts[p].row[w] # ToRat(0)

(* the heatmaps *)
\* the warm-season daytime rows of month m and hour h
CellRows(m, h) ==
    {i \in 1..Len(warm_season_daytime) :
        /\ MonthOf(warm_season_daytime[i].date_time[1]) = m
        /\ warm_season_daytime[i].date_time[2] = h}

\* those of them whose weather description is w
CellRowsOf(m, h, w) ==
    {i \in CellRows(m, h) : warm_season_daytime[i].weather_description = w}

\* C12: every heatmap drawn is a table over months 4..10 and hours 6..18; a
\* cell with warm-season daytime rows holds the share of them that have the
\* heatmap's weather, exactly 0 when none has, and a cell without any row holds
\* NaN and not 0.
C12_RelativeFrequency ==
    \A i \in 1..Len(heatmaps) :
        /\ heatmaps[i].weather = target_weathers[i]
        /\ DOMAIN heatmaps[i].data = (4..10) \X (6..18)
        /\ \A c \in DOMAIN heatmaps[i].data :
              LET total == Cardinality(CellRows(c[1], c[2]))
                  count == Cardinality(CellRowsOf(c[1], c[2], heatmaps[i].weather))
                  value == heatmaps[i].data[c]
              IN  /\ total > 0 =>
                        /\ ~IsNaN(value)
                        /\ value[1] * total = count * value[2]
                        /\ count = 0 => value = ToRat(0)
                  /\ total = 0 => IsNaN(value) /\ value # ToRat(0)

\* C12 witness: a heatmap has been drawn with a cell without data, a cell
\* with data and no row of the weather, and a cell where the weather has a
\* share of the rows but not all.
C12_Witness ==
    \E i \in 1..Len(heatmaps) :
        /\ \E c \in DOMAIN heatmaps[i].data : IsNaN(heatmaps[i].data[c])
        /\ \E c \in DOMAIN heatmaps[i].data : heatmaps[i].data[c] = ToRat(0)
        /\ \E c \in DOMAIN heatmaps[i].data :
              /\ RLt(ToRat(0), heatmaps[i].data[c])
              /\ RLt(heatmaps[i].data[c], ToRat(1))

(* the moving average *)
\* the weekly cell has run on a day_time with rows
WeeklyDone == by_week_weekday # <<>>

\* the values of column c in the rows of by_week_weekday from the third row
\* before row i up to row i that are not missing
Available(i, c) ==
    LET from == IF i > 4 THEN i - 3 ELSE 1
        rows == SelectSeq([j \in 1..Len(by_week_weekday) |-> j],
                          LAMBDA j : /\ from <= j /\ j <= i
                                     /\ ~IsNaN(by_week_weekday[j].row[c]))
    IN  [p \in 1..Len(rows) |-> by_week_weekday[rows[p]].row[c]]

\* the values of column c of a frame, row by row
Column(frame, c) == [i \in 1..Len(frame) |-> frame[i].row[c]]

\* C13: the moving average has the rows, the index and the columns of the
\* weekly table; its i-th value in a column is the mean of the values the
\* column has in row i and up to 3 rows before it, the missing ones left out,
\* and is missing when there is none; a column 10, 20, 30 gives 10, 15, 20.
C13_MovingAverage ==
    WeeklyDone =>
        /\ Len(by_week_weekday_MA) = Len(by_week_weekday)
        /\ \A i \in 1..Len(by_week_weekday) :
              /\ by_week_weekday_MA[i].idx = by_week_weekday[i].idx
              /\ DOMAIN by_week_weekday_MA[i].row = DOMAIN by_week_weekday[i].row
              /\ \A c \in DOMAIN by_week_weekday[i].row :
                    LET have == Available(i, c)
                        value == by_week_weekday_MA[i].row[c]
                    IN  /\ have = <<>> <=> IsNaN(value)
                        /\ have # <<>> => RMul(value, ToRat(Len(have))) = SumSeq(have)
        /\ \A c \in DOMAIN by_week_weekday[1].row :
              Column(by_week_weekday, c) = <<ToRat(10), ToRat(20), ToRat(30)>> =>
                 Column(by_week_weekday_MA, c) = <<ToRat(10), ToRat(15), ToRat(20)>>

\* C13 witness: the moving average has been taken over more than 4 weeks, the
\* fifth window leaving out the first week and holding a missing value.
C13_Witness ==
    /\ WeeklyDone
    /\ Len(by_week_weekday) > 4
    /\ \E c \in DOMAIN by_week_weekday[1].row :
          /\ ~IsNaN(by_week_weekday[1].row[c])
          /\ IsNaN(by_week_weekday[3].row[c])
          /\ ~IsNaN(by_week_weekday[5].row[c])
          /\ by_week_weekday_MA[5].row[c] # by_week_weekday[5].row[c]

\* the column 10, 20, 30 of the example has been averaged
C13_ExampleReached ==
    /\ WeeklyDone
    /\ \E c \in DOMAIN by_week_weekday[1].row :
          Column(by_week_weekday, c) = <<ToRat(10), ToRat(20), ToRat(30)>>

(* the residuals *)
\* the residual cell has just run; its tables are not assigned again
ResidDone == pc = "t_test"

\* the warm-season daytime rows that share the day of the week and the hour of
\* the timestamp t; 1 April 2013 is a Monday
SameWeekdayHour(t) ==
    {i \in 1..Len(warm_season_daytime) :
        /\ (warm_season_daytime[i].date_time[1] - FirstOfApril) % 7
              = (t[1] - FirstOfApril) % 7
        /\ warm_season_daytime[i].date_time[2] = t[2]}

\* the sum of the traffic volumes of the rows I of warm_season_daytime
RECURSIVE SumVolumes(_)
SumVolumes(I) ==
    IF I = {} THEN 0
    ELSE LET i == CHOOSE j \in I : TRUE
         IN  warm_season_daytime[i].traffic_volume + SumVolumes(I \ {i})

\* every warm-season daytime row has the mean volume of its group
AllAtGroupMean ==
    \A i \in 1..Len(warm_season_daytime) :
        LET G == SameWeekdayHour(warm_season_daytime[i].date_time)
        IN  warm_season_daytime[i].traffic_volume * Cardinality(G) = SumVolumes(G)

\* C14: tmp_sorted holds every warm-season daytime row once, with the residual
\* of its traffic volume from the mean volume of the rows of its day of the
\* week and hour; when every row is at its group's mean every residual is 0.
C14_Residuals ==
    ResidDone =>
        /\ Len(tmp_sorted) = Len(warm_season_daytime)
        /\ IdxSet(tmp_sorted) = IdxSet(warm_season_daytime)
        /\ \A i \in 1..Len(tmp_sorted) :
              LET G == SameWeekdayHour(tmp_sorted[i].date_time)
              IN  /\ \E j \in 1..Len(warm_season_daytime) :
                        /\ warm_season_daytime[j].idx = tmp_sorted[i].idx
                        /\ warm_season_daytime[j].traffic_volume = tmp_sorted[i].traffic_volume
                        /\ warm_season_daytime[j].date_time = tmp_sorted[i].date_time
                  /\ RMul(tmp_sorted[i].resid, ToRat(Cardinality(G)))
                        = ToRat(tmp_sorted[i].traffic_volume * Cardinality(G) - SumVolumes(G))
        /\ AllAtGroupMean => \A i \in 1..Len(tmp_sorted) : tmp_sorted[i].resid = ToRat(0)

\* C14 witness: residuals have been taken in two groups, one with a row off
\* its group's mean and one with all rows at it.
C14_Witness ==
    /\ ResidDone
    /\ \E i, j \in 1..Len(tmp_sorted) :
          /\ tmp_sorted[i].resid # ToRat(0)
          /\ tmp_sorted[j].resid = ToRat(0)
          /\ SameWeekdayHour(tmp_sorted[i].date_time) # SameWeekdayHour(tmp_sorted[j].date_time)
          /\ Cardinality(SameWeekdayHour(tmp_sorted[j].date_time)) > 1

\* all residuals are 0 in a table of several groups
C14_AllZeroReached ==
    /\ ResidDone
    /\ AllAtGroupMean
    /\ \E i, j \in 1..Len(tmp_sorted) :
          SameWeekdayHour(tmp_sorted[i].date_time) # SameWeekdayHour(tmp_sorted[j].date_time)

\* the rows of tmp_sorted whose weather description is w, in its order, as
\* (label, residual) entries
ResidualsOf(w) ==
    LET rows == SelectSeq([i \in 1..Len(tmp_sorted) |-> i],
                          LAMBDA i : tmp_sorted[i].weather_description = w)
    IN  [p \in 1..Len(rows) |->
            [idx |-> tmp_sorted[rows[p]].idx, val |-> tmp_sorted[rows[p]].resid]]

\* the timestamp of the row of tmp_sorted with index label l
TimeOf(l) == tmp_sorted[CHOOSE i \in 1..Len(tmp_sorted) : tmp_sorted[i].idx = l].date_time

\* series s runs in non-decreasing timestamp order
InTimeOrder(s) ==
    \A p \in 1..(Len(s) - 1) :
        \/ TimeOf(s[p].idx)[1] < TimeOf(s[p + 1].idx)[1]
        \/ /\ TimeOf(s[p].idx)[1] = TimeOf(s[p + 1].idx)[1]
           /\ TimeOf(s[p].idx)[2] <= TimeOf(s[p + 1].idx)[2]

\* C15: sc_resid holds exactly the residuals of the "scattered clouds" rows and
\* mst_resid exactly those of the "mist" rows, every such row once, in
\* non-decreasing timestamp order, although the mask of mst_resid is taken on
\* the table that is not sorted.
C15_ResidualSeries ==
    ResidDone =>
        /\ sc_resid = ResidualsOf("scattered clouds")
        /\ mst_resid = ResidualsOf("mist")
        /\ InTimeOrder(sc_resid)
        /\ InTimeOrder(mst_resid)
        /\ \A i \in 1..Len(warm_season_daytime) :
              /\ warm_season_daytime[i].weather_description = "mist" <=>
                    \E p \in 1..Len(mst_resid) : mst_resid[p].idx = warm_season_daytime[i].idx
              /\ warm_season_daytime[i].weather_description = "scattered clouds" <=>
                    \E p \in 1..Len(sc_resid) : sc_resid[p].idx = warm_season_daytime[i].idx
        /\ \A p, q \in 1..Len(mst_resid) : mst_resid[p].idx = mst_resid[q].idx => p = q
        /\ \A p, q \in 1..Len(sc_resid) : sc_resid[p].idx = sc_resid[q].idx => p = q

\* C15 witness: the residual series have been taken from a table that is not
\* in time order, in which a "mist" row stands where the sorted table has a
\* row of another weather.
C15_Witness ==
    /\ ResidDone
    /\ mst_resid # <<>>
    /\ sc_resid # <<>>
    /\ \E i \in 1..Len(tmp_sorted) :
          /\ warm_season_daytime[i].weather_description = "mist"
          /\ tmp_sorted[i].weather_description # "mist"

(* normalization, mutation, derivation *)
\* the labels of the groups of by_weather_description
WeatherGroups == {e.idx : e \in by_weather_description}

\* the labels of the columns of daily_counts
CountColumns == IF daily_counts = <<>> THEN {} ELSE DOMAIN daily_counts[1].row

\* a set of weather descriptions that are normalized, so that no two of them
\* are spellings of one condition
Normalized(S) ==
    /\ \A w \in S : StripLower(w) = w
    /\ \A v, w \in S : StripLower(v) = StripLower(w) => v = w

\* C16: every grouping keyed by weather description has groups of normalized
\* strings: those of by_weather_description and the columns of daily_counts.
C16_NormalizedBeforeGrouping ==
    /\ Normalized(WeatherGroups)
    /\ Normalized(CountColumns)

\* C17: once day_time has been created by the split, no later cell changes
\* it.
C17_DayTimeNeverModified ==
    [][pc \notin {"load", "split"} => day_time' = day_time]_vars

\* C20: when a month of the cleaned daytime table has a single observation,
\* the IQR cell ends in an error and produces no filtered table.
C20_TooFewForQuartilesIsError ==
    (/\ pc \notin {"load", "split", "iqr"}
     /\ \E m \in 1..12 :
           Cardinality({i \in 1..Len(day_time) : MonthOf(day_time[i].date_time[1]) = m}) = 1) =>
        /\ pc = "error"
        /\ \A e \in Range(out) : e.cell # "iqr"
        /\ day_time_no_out = <<>>

\* C18: once the load step has finished no cell changes the base table i_94:
\* its rows, values and columns stay as they are.
C18_BaseNeverChanged ==
    [][pc # "load" => i_94' = i_94]_vars

\* C18 witness: the script has run to its end; the base table holds a row of
\* traffic volume 0 and a row whose copy in day_time has been modified, and
\* the trim has left out a row of day_time.
C18_Witness ==
    /\ pc = "done"
    /\ \E i \in 1..Len(i_94) : i_94[i].traffic_volume = 0
    /\ \E i \in 1..Len(i_94) : \E j \in 1..Len(day_time) :
          /\ i_94[i].idx = day_time[j].idx
          /\ i_94[i].weather_description # day_time[j].weather_description
    /\ Len(day_trim_full) < Len(day_time)

\* the (cell, attribute) pairs of the .dt accessor calls of the script
DerivationsOfScript ==
    {<<"load", a>> : a \in {"date_only", "hour", "day", "month", "year"}}
       \cup {<<"weekly", "dayofweek">>, <<"dayofweek", "dayofweek">>,
             <<"normalize", "month">>, <<"daily", "date_only">>,
             <<"resid", "hour">>, <<"resid", "dayofweek">>}

\* the row of i_94 with index label l
BaseRow(l) == i_94[CHOOSE i \in 1..Len(i_94) : i_94[i].idx = l]

MeanOnDate(d) ==
    LET on == SelectSeq(day_time, LAMBDA r : r.date_time[1] = d)
    IN  MeanSkipNa([i \in 1..Len(on) |-> VolumeOf(on[i])])

\* the Monday on or before date d
MondayOnOrBefore(d) == d - DayOfWeek(d)

\* C21: every weekly bucket holds the daytime observations of one Monday and
\* of the six days after it: the table has one row per week that starts on a
\* Monday and has a daytime row, and the cell of a weekday in it is the mean
\* over the one date that lies that many days after the Monday.
C21_BucketStartsOnMonday ==
    WeeklyDone =>
        LET mondays == SortedSeq({MondayOnOrBefore(day_time[i].date_time[1]) :
                                     i \in 1..Len(day_time)})
        IN  /\ Len(by_week_weekday) = Len(mondays)
            /\ \A p \in 1..Len(by_week_weekday) :
                  \A c \in DOMAIN by_week_weekday[p].row :
                     by_week_weekday[p].row[c] = MeanOnDate(mondays[p] + c)

(* the months after the IQR filter *)
\* the months a table of monthly means has a value for
MonthsOf(means) == {means[p].idx : p \in 1..Len(means)}

\* the months in which a row of day_time has a traffic volume
MonthsWithVolume ==
    {day_time[i].month : i \in {j \in 1..Len(day_time) : ~IsNaN(VolumeOf(day_time[j]))}}

\* C22 as stated: the IQR filter never empties a month: every month with a
\* daytime row keeps at least one row, the filtered monthly means are defined
\* for exactly the months of the original monthly means, and every row of the
\* filtered table is a row of day_time with the same columns.
C22_NoMonthEmptied ==
    IqrJustRun =>
        /\ \A i \in 1..Len(day_time) :
              \E j \in 1..Len(day_time_no_out) :
                 day_time_no_out[j].month = day_time[i].month
        /\ MonthsOf(by_month_iqr) = MonthsOf(by_month)
        /\ \A j \in 1..Len(day_time_no_out) :
              \E i \in 1..Len(day_time) : day_time[i] = day_time_no_out[j]

\* C22 amended: every month in which a daytime row has a traffic volume keeps
\* at least one row; the filtered monthly means are defined, and not missing,
\* for exactly those months, which are the months whose original monthly mean
\* is not missing, while the original monthly means have an entry for every
\* month of day_time; every row of the filtered table is a row of day_time
\* with the same columns and has a traffic volume.
C22_NoMonthWithVolumeEmptied ==
    IqrJustRun =>
        /\ \A m \in MonthsWithVolume :
              \E j \in 1..Len(day_time_no_out) : day_time_no_out[j].month = m
        /\ MonthsOf(by_month_iqr) = MonthsWithVolume
        /\ \A p \in 1..Len(by_month_iqr) : ~IsNaN(by_month_iqr[p].val)
        /\ MonthsOf(by_month) = {day_time[i].month : i \in 1..Len(day_time)}
        /\ \A p \in 1..Len(by_month) :
              IsNaN(by_month[p].val) <=> by_month[p].idx \notin MonthsWithVolume
        /\ \A j \in 1..Len(day_time_no_out) :
              /\ ~IsNaN(VolumeOf(day_time_no_out[j]))
              /\ \E i \in 1..Len(day_time) : day_time[i] = day_time_no_out[j]

\* C22 witness: the filter has run on two months and has dropped a row that
\* has a volume from a month, whose filtered mean differs from its original
\* mean.
C22_Witness ==
    /\ IqrJustRun
    /\ Cardinality(MonthsOf(by_month)) = 2
    /\ \E i \in 1..Len(day_time) :
          /\ ~IsNaN(VolumeOf(day_time[i]))
          /\ day_time[i].idx \notin IdxSet(day_time_no_out)
    /\ \E p \in 1..Len(by_month), q \in 1..Len(by_month_iqr) :
          /\ by_month[p].idx = by_month_iqr[q].idx
          /\ by_month[p].val # by_month_iqr[q].val

\* the filter has run on a month all of whose rows lack a traffic volume and on
\* a month that has one
C22_MonthWithoutVolumeReached ==
    /\ IqrJustRun
    /\ MonthsWithVolume # {}
    /\ MonthsWithVolume # MonthsOf(by_month)

(* the sums of the residuals *)
\* the rows of tmp_sorted in the (weekday, hour) group of its row i
GroupOf(i) ==
    {j \in 1..Len(tmp_sorted) :
        /\ tmp_sorted[j].weekday = tmp_sorted[i].weekday
        /\ tmp_sorted[j].hour = tmp_sorted[i].hour}

\* the sum of the residuals of the rows I of tmp_sorted
RECURSIVE SumResid(_)
SumResid(I) ==
    IF I = {} THEN ToRat(0)
    ELSE LET i == CHOOSE j \in I : TRUE
         IN  RAdd(tmp_sorted[i].resid, SumResid(I \ {i}))

\* C23: after the residual cell the residuals of every (day of the week, hour)
\* group sum to zero, so that the observed volumes of a group and its group
\* means have the same sum.
C23_GroupResidualsSumToZero ==
    ResidDone =>
        \A i \in 1..Len(tmp_sorted) :
            /\ SumResid(GroupOf(i)) = ToRat(0)
            /\ GroupOf(i) = {j \in 1..Len(tmp_sorted) :
                                /\ DayOfWeek(tmp_sorted[j].date_time[1])
                                      = DayOfWeek(tmp_sorted[i].date_time[1])
                                /\ tmp_sorted[j].date_time[2] = tmp_sorted[i].date_time[2]}

\* C23 witness: a group of several rows has non-zero residuals, and the
\* residuals of "scattered clouds" alone do not sum to zero.
C23_Witness ==
    /\ ResidDone
    /\ \E i \in 1..Len(tmp_sorted) :
          /\ tmp_sorted[i].resid # ToRat(0)
          /\ Cardinality(GroupOf(i)) > 2
    /\ SumSeq(FloatVector(sc_resid)) # ToRat(0)
    /\ Len(sc_resid) > 1

(* the range and the sum of the relative frequencies *)
\* the heatmaps have been drawn
HeatmapsDone == heatmaps # <<>>

\* the distinct weather descriptions of the warm-season daytime rows
WarmWeathers ==
    {warm_season_daytime[i].weather_description : i \in 1..Len(warm_season_daytime)}

\* the sum over the weathers W of the relative frequencies that
\* plot_weather_heatmap gives them in cell c
RECURSIVE SumOfShares(_, _)
SumOfShares(W, c) ==
    IF W = {} THEN ToRat(0)
    ELSE LET w == CHOOSE x \in W : TRUE
         IN  RAdd(HeatmapData(warm_season_daytime, w)[c], SumOfShares(W \ {w}, c))

\* C24: every warm-season daytime row lies in a cell of months 4..10 and
\* hours 6..18; in every heatmap drawn a cell that has data holds a value from
\* 0 to 1, the count of the weather in the cell being at most the count of all
\* rows of the cell; and in a cell that has data the relative frequencies of
\* all distinct weather descriptions sum to 1.
C24_SharesWithinUnit ==
    HeatmapsDone =>
        /\ \A i \in 1..Len(warm_season_daytime) :
              /\ warm_season_daytime[i].month \in 4..10
              /\ warm_season_daytime[i].hour \in 6..18
        /\ \A i \in 1..Len(heatmaps) :
              \A c \in DOMAIN heatmaps[i].data :
                 /\ Cardinality(CellRowsOf(c[1], c[2], heatmaps[i].weather))
                       <= Cardinality(CellRows(c[1], c[2]))
                 /\ ~IsNaN(heatmaps[i].data[c]) =>
                       /\ RLe(ToRat(0), heatmaps[i].data[c])
                       /\ RLe(heatmaps[i].data[c], ToRat(1))
        /\ \A c \in {<<warm_season_daytime[i].month, warm_season_daytime[i].hour>> :
                       i \in 1..Len(warm_season_daytime)} :
              SumOfShares(WarmWeathers, c) = ToRat(1)

\* C24 witness: the heatmaps have been drawn of a table with a cell in which
\* two target weathers and a third description share the rows.
C24_Witness ==
    /\ HeatmapsDone
    /\ \E c \in (4..10) \X (6..18) :
          /\ \E i, j \in 1..Len(heatmaps) :
                /\ RLt(ToRat(0), heatmaps[i].data[c])
                /\ RLt(ToRat(0), heatmaps[j].data[c])
                /\ i # j
          /\ \E w \in WarmWeathers :
                /\ \A i \in 1..Len(target_weathers) : target_weathers[i] # w
                /\ CellRowsOf(c[1], c[2], w) # {}

\* a target weather has more than half of the rows of a cell, and not all
C24_MajorityReached ==
    /\ HeatmapsDone
    /\ \E c \in (4..10) \X (6..18), i \in 1..Len(heatmaps) :
          /\ RLt(Rat(1, 2), heatmaps[i].data[c])
          /\ RLt(heatmaps[i].data[c], ToRat(1))
====
